---- MODULE Spec2Model ----
(***************************************************************************)
(* The account ledger of output/accounts.py: one Account object (balance,  *)
(* holdings, transactions, initial_deposit, profit_loss), its four         *)
(* mutating methods and the static price table behind get_share_price.     *)
(*                                                                         *)
(* Money is modelled in whole currency units (the table's prices 150.0,    *)
(* 200.0 and 3000.0 are whole numbers), quantities are Python ints.  The   *)
(* 'timestamp' field of a transaction (datetime.now()) is read by no       *)
(* method of Account and is left out of the records.                       *)
(*                                                                         *)
(* Each method is an operator from the object before the call to the       *)
(* object after it together with the exception it raised ("" for a normal  *)
(* return), written statement by statement from the Python.  The variable  *)
(* `account` is the live object; `call`, `raised` and `before` record the  *)
(* last call made on it, what it raised and the object as it was when the  *)
(* call began.  `handle` is what a caller holds from the last              *)
(* get_holdings() or get_transactions(), and `writes` counts the changes   *)
(* the caller made through it.                                             *)
(*                                                                         *)
(* The form of output/app.py is modelled on top of the ledger: its global  *)
(* user_account, its handlers and its display refresh (SpecApp).  The      *)
(* crew of src/engineering_team/crew.py is modelled by `run`, the status   *)
(* and retry count of each of its tasks (SpecCrew).                        *)
(***************************************************************************)
EXTENDS Integers, Sequences, FiniteSets, TLC

VARIABLES account, call, raised, before, handle, writes, run

vars == <<account, call, raised, before, handle, writes, run>>

\* ------------------------------------------------------------------ bounds
\* Calls are made while the transaction log is shorter than MaxTx.
MaxTx == 3
\* A caller changes a returned container at most MaxCallerWrites times.
MaxCallerWrites == 1
MaxRetries == 2

\* ------------------------------------------------------------------ inputs
\* Arguments the callers pass.  accounts.py checks no sign and no range, so
\* zero and negative values are inputs like any other.
InitialBalances == {-100, 0, 10000}
Amounts == {-100, 0, 150, 20000}
Symbols == {"AAPL", "TSLA", "ZZZZ"}
Quantities == {-1, 0, 1, 10}

\* ------------------------------------------------------------------ Python values
\* None is the empty tuple and any other returned value v the tuple <<v>>, so
\* that `price is None` can be asked of either.
None == <<>>
Some(v) == <<v>>
ValueOf(r) == r[1]
NoError == ""

\* dict.get(k, d), d[k] = v and del d[k] on a dict held as a function.
DictGet(d, k, default) == IF k \in DOMAIN d THEN d[k] ELSE default
DictSet(d, k, v) == [x \in (DOMAIN d) \cup {k} |-> IF x = k THEN v ELSE d[x]]
DictDel(d, k) == [x \in (DOMAIN d) \ {k} |-> d[x]]
EmptyDict == [x \in {} |-> 0]

\* A value handed to a caller is either the very object a field of the
\* account is bound to (Ref: changes made through it are changes of the
\* account) or a new object with the same content (Copy).
NoHandle == [kind |-> "none"]
Ref(field) == [kind |-> "ref", field |-> field]
Copy(field, value) == [kind |-> "copy", field |-> field, value |-> value]

\* The content seen through a handle, and the account and the handle after
\* the content is replaced through it.
Deref(h, self) == IF h.kind = "ref" THEN self[h.field] ELSE h.value
Store(h, self, v) ==
  IF h.kind = "ref"
  THEN [self |-> [self EXCEPT ![h.field] = v], handle |-> h]
  ELSE [self |-> self, handle |-> [h EXCEPT !.value = v]]

\* ------------------------------------------------------------------ price oracle
\* prices = {'AAPL': 150.0, 'TSLA': 200.0, 'GOOGL': 3000.0}
prices == [s \in {"AAPL", "TSLA", "GOOGL"} |->
             CASE s = "AAPL" -> 150 [] s = "TSLA" -> 200 [] s = "GOOGL" -> 3000]

\* Variant of get_share_price: prices.get(symbol, 0.0), a default price.
get_share_price_default(symbol) ==
  IF symbol \in DOMAIN prices THEN Some(prices[symbol]) ELSE Some(0)

\* return prices.get(symbol)
get_share_price(symbol) ==
  IF symbol \in DOMAIN prices THEN Some(prices[symbol]) ELSE None

\* ------------------------------------------------------------------ Account
\* Variant of __init__: initial_deposit is left at 0.
NewAccount_no_snapshot(initial_balance) ==
  [balance |-> initial_balance,
   holdings |-> EmptyDict,
   transactions |-> <<>>,
   initial_deposit |-> 0,
   profit_loss |-> 0]

\* Account.__init__(self, initial_balance=0)
NewAccount(initial_balance) ==
  [balance |-> initial_balance,
   holdings |-> EmptyDict,
   transactions |-> <<>>,
   initial_deposit |-> initial_balance,
   profit_loss |-> 0]

\* The outcome of a method call: the object afterwards and the exception.
Return(self) == [self |-> self, raised |-> NoError]
Raise(self, message) == [self |-> self, raised |-> message]

\* Variant of deposit: the balance is updated, the log is not.
deposit_unlogged(self, amount) ==
  Return([self EXCEPT !.balance = self.balance + amount])

\* Variant of deposit: the amount is added to initial_deposit as well.
deposit_moves_baseline(self, amount) ==
  LET s1 == [self EXCEPT !.balance = self.balance + amount,
                         !.initial_deposit = self.initial_deposit + amount]
      s2 == [s1 EXCEPT !.transactions =
               Append(s1.transactions, [type |-> "deposit", amount |-> amount])]
  IN Return(s2)

\* Account.deposit(self, amount)
deposit(self, amount) ==
  LET s1 == [self EXCEPT !.balance = self.balance + amount]
      s2 == [s1 EXCEPT !.transactions =
               Append(s1.transactions, [type |-> "deposit", amount |-> amount])]
  IN Return(s2)

\* Variant of withdraw: the balance is debited before the funds check.
withdraw_debit_first(self, amount) ==
  LET s1 == [self EXCEPT !.balance = self.balance - amount] IN
  IF amount > self.balance
  THEN Raise(s1, "Insufficient funds")
  ELSE Return([s1 EXCEPT !.transactions =
                 Append(s1.transactions, [type |-> "withdrawal", amount |-> amount])])

\* Variant of withdraw: no funds check.
withdraw_unchecked(self, amount) ==
  LET s1 == [self EXCEPT !.balance = self.balance - amount] IN
  Return([s1 EXCEPT !.transactions =
            Append(s1.transactions, [type |-> "withdrawal", amount |-> amount])])

\* Variant of withdraw: the record is logged with the type of a deposit.
withdraw_logs_deposit(self, amount) ==
  IF amount > self.balance
  THEN Raise(self, "Insufficient funds")
  ELSE LET s1 == [self EXCEPT !.balance = self.balance - amount]
           s2 == [s1 EXCEPT !.transactions =
                    Append(s1.transactions, [type |-> "deposit", amount |-> amount])]
       IN Return(s2)

\* Account.withdraw(self, amount)
withdraw(self, amount) ==
  IF amount > self.balance
  THEN Raise(self, "Insufficient funds")
  ELSE LET s1 == [self EXCEPT !.balance = self.balance - amount]
           s2 == [s1 EXCEPT !.transactions =
                    Append(s1.transactions, [type |-> "withdrawal", amount |-> amount])]
       IN Return(s2)

\* Variant of buy_shares: holdings[symbol] = quantity, overwriting the holding.
buy_shares_overwrite(self, symbol, quantity) ==
  LET found == get_share_price(symbol) IN
  IF found = None
  THEN Raise(self, "Unknown share symbol")
  ELSE LET price == ValueOf(found)
           cost == price * quantity IN
       IF cost > self.balance
       THEN Raise(self, "Insufficient funds to buy shares")
       ELSE LET s1 == [self EXCEPT !.balance = self.balance - cost]
                s2 == [s1 EXCEPT !.holdings = DictSet(s1.holdings, symbol, quantity)]
                s3 == [s2 EXCEPT !.transactions =
                         Append(s2.transactions,
                                [type |-> "buy", symbol |-> symbol,
                                 quantity |-> quantity, price |-> price])]
            IN Return(s3)

\* Variant of buy_shares: `if cost >= self.balance`.
buy_shares_strict(self, symbol, quantity) ==
  LET found == get_share_price(symbol) IN
  IF found = None
  THEN Raise(self, "Unknown share symbol")
  ELSE LET price == ValueOf(found)
           cost == price * quantity IN
       IF cost >= self.balance
       THEN Raise(self, "Insufficient funds to buy shares")
       ELSE LET s1 == [self EXCEPT !.balance = self.balance - cost]
                s2 == [s1 EXCEPT !.holdings =
                         DictSet(s1.holdings, symbol,
                                 DictGet(s1.holdings, symbol, 0) + quantity)]
                s3 == [s2 EXCEPT !.transactions =
                         Append(s2.transactions,
                                [type |-> "buy", symbol |-> symbol,
                                 quantity |-> quantity, price |-> price])]
            IN Return(s3)

\* Variant of buy_shares: the balance is charged the unit price, not the cost.
buy_shares_unit_price(self, symbol, quantity) ==
  LET found == get_share_price(symbol) IN
  IF found = None
  THEN Raise(self, "Unknown share symbol")
  ELSE LET price == ValueOf(found)
           cost == price * quantity IN
       IF cost > self.balance
       THEN Raise(self, "Insufficient funds to buy shares")
       ELSE LET s1 == [self EXCEPT !.balance = self.balance - price]
                s2 == [s1 EXCEPT !.holdings =
                         DictSet(s1.holdings, symbol,
                                 DictGet(s1.holdings, symbol, 0) + quantity)]
                s3 == [s2 EXCEPT !.transactions =
                         Append(s2.transactions,
                                [type |-> "buy", symbol |-> symbol,
                                 quantity |-> quantity, price |-> price])]
            IN Return(s3)

\* Account.buy_shares(self, symbol, quantity)
buy_shares(self, symbol, quantity) ==
  LET found == get_share_price(symbol) IN
  IF found = None
  THEN Raise(self, "Unknown share symbol")
  ELSE LET price == ValueOf(found)
           cost == price * quantity IN
       IF cost > self.balance
       THEN Raise(self, "Insufficient funds to buy shares")
       ELSE LET s1 == [self EXCEPT !.balance = self.balance - cost]
                s2 == [s1 EXCEPT !.holdings =
                         DictSet(s1.holdings, symbol,
                                 DictGet(s1.holdings, symbol, 0) + quantity)]
                s3 == [s2 EXCEPT !.transactions =
                         Append(s2.transactions,
                                [type |-> "buy", symbol |-> symbol,
                                 quantity |-> quantity, price |-> price])]
            IN Return(s3)

\* Variant of sell_shares: the key is kept when the holding reaches 0.
sell_shares_keep_zero(self, symbol, quantity) ==
  IF symbol \notin DOMAIN self.holdings
  THEN Raise(self, "You do not own any shares of this symbol")
  ELSE IF quantity > self.holdings[symbol]
  THEN Raise(self, "You do not own enough shares to sell")
  ELSE LET found == get_share_price(symbol) IN
       IF found = None
       THEN Raise(self, "Unknown share symbol")
       ELSE LET price == ValueOf(found)
                revenue == price * quantity
                s1 == [self EXCEPT !.balance = self.balance + revenue]
                s2 == [s1 EXCEPT !.holdings =
                         DictSet(s1.holdings, symbol, s1.holdings[symbol] - quantity)]
                s4 == [s2 EXCEPT !.transactions =
                         Append(s2.transactions,
                                [type |-> "sell", symbol |-> symbol,
                                 quantity |-> quantity, price |-> price])]
            IN Return(s4)

\* Variant of sell_shares: the quantity is not compared with the holding.
sell_shares_any_quantity(self, symbol, quantity) ==
  IF symbol \notin DOMAIN self.holdings
  THEN Raise(self, "You do not own any shares of this symbol")
  ELSE LET found == get_share_price(symbol) IN
       IF found = None
       THEN Raise(self, "Unknown share symbol")
       ELSE LET price == ValueOf(found)
                revenue == price * quantity
                s1 == [self EXCEPT !.balance = self.balance + revenue]
                s2 == [s1 EXCEPT !.holdings =
                         DictSet(s1.holdings, symbol, s1.holdings[symbol] - quantity)]
                s3 == IF s2.holdings[symbol] = 0
                      THEN [s2 EXCEPT !.holdings = DictDel(s2.holdings, symbol)]
                      ELSE s2
                s4 == [s3 EXCEPT !.transactions =
                         Append(s3.transactions,
                                [type |-> "sell", symbol |-> symbol,
                                 quantity |-> quantity, price |-> price])]
            IN Return(s4)

\* Variant of sell_shares: the price is looked up before the holdings are.
sell_shares_price_first(self, symbol, quantity) ==
  LET found == get_share_price(symbol) IN
  IF found = None
  THEN Raise(self, "Unknown share symbol")
  ELSE IF symbol \notin DOMAIN self.holdings
  THEN Raise(self, "You do not own any shares of this symbol")
  ELSE IF quantity > self.holdings[symbol]
  THEN Raise(self, "You do not own enough shares to sell")
  ELSE LET price == ValueOf(found)
           revenue == price * quantity
           s1 == [self EXCEPT !.balance = self.balance + revenue]
           s2 == [s1 EXCEPT !.holdings =
                    DictSet(s1.holdings, symbol, s1.holdings[symbol] - quantity)]
           s3 == IF s2.holdings[symbol] = 0
                 THEN [s2 EXCEPT !.holdings = DictDel(s2.holdings, symbol)]
                 ELSE s2
           s4 == [s3 EXCEPT !.transactions =
                    Append(s3.transactions,
                           [type |-> "sell", symbol |-> symbol,
                            quantity |-> quantity, price |-> price])]
       IN Return(s4)

\* Variant of sell_shares: selling the last share empties the whole mapping
\* (self.holdings = {}) instead of deleting the one key.
sell_shares_clears_all(self, symbol, quantity) ==
  IF symbol \notin DOMAIN self.holdings
  THEN Raise(self, "You do not own any shares of this symbol")
  ELSE IF quantity > self.holdings[symbol]
  THEN Raise(self, "You do not own enough shares to sell")
  ELSE LET found == get_share_price(symbol) IN
       IF found = None
       THEN Raise(self, "Unknown share symbol")
       ELSE LET price == ValueOf(found)
                revenue == price * quantity
                s1 == [self EXCEPT !.balance = self.balance + revenue]
                s2 == [s1 EXCEPT !.holdings =
                         DictSet(s1.holdings, symbol, s1.holdings[symbol] - quantity)]
                s3 == IF s2.holdings[symbol] = 0
                      THEN [s2 EXCEPT !.holdings = EmptyDict]
                      ELSE s2
                s4 == [s3 EXCEPT !.transactions =
                         Append(s3.transactions,
                                [type |-> "sell", symbol |-> symbol,
                                 quantity |-> quantity, price |-> price])]
            IN Return(s4)

\* Account.sell_shares(self, symbol, quantity)
sell_shares(self, symbol, quantity) ==
  IF symbol \notin DOMAIN self.holdings
  THEN Raise(self, "You do not own any shares of this symbol")
  ELSE IF quantity > self.holdings[symbol]
  THEN Raise(self, "You do not own enough shares to sell")
  ELSE LET found == get_share_price(symbol) IN
       IF found = None
       THEN Raise(self, "Unknown share symbol")
       ELSE LET price == ValueOf(found)
                revenue == price * quantity
                s1 == [self EXCEPT !.balance = self.balance + revenue]
                s2 == [s1 EXCEPT !.holdings =
                         DictSet(s1.holdings, symbol, s1.holdings[symbol] - quantity)]
                s3 == IF s2.holdings[symbol] = 0
                      THEN [s2 EXCEPT !.holdings = DictDel(s2.holdings, symbol)]
                      ELSE s2
                s4 == [s3 EXCEPT !.transactions =
                         Append(s3.transactions,
                                [type |-> "sell", symbol |-> symbol,
                                 quantity |-> quantity, price |-> price])]
            IN Return(s4)

\* Account.get_holdings(self): return self.holdings
get_holdings(self) == Ref("holdings")

\* Account.get_transactions(self): return self.transactions
get_transactions(self) == Ref("transactions")

\* Account.get_profit_loss(self)
get_profit_loss(self) == self.balance - self.initial_deposit

\* ------------------------------------------------------------------ state machine
\* ------------------------------------------------------------------ the engineering crew (crew.py)
\* Variant of the task declarations: test_task is declared before
\* code_review_task.
tasks_test_before_review ==
  <<"requirements_analysis_task", "design_task", "code_task", "frontend_task",
    "test_task", "code_review_task", "documentation_task">>

\* self.tasks: the @task methods of EngineeringTeam in the order they are
\* declared.
tasks ==
  <<"requirements_analysis_task", "design_task", "code_task", "frontend_task",
    "code_review_task", "test_task", "documentation_task">>

\* Crew(..., process=Process.sequential, ...)
process == "sequential"

TaskNames == {tasks[k] : k \in 1..Len(tasks)}

\* The crew as crew() returns it, before kickoff: no task has started.
NotStarted ==
  [status |-> [t \in TaskNames |-> "pending"],
   retries |-> [t \in TaskNames |-> 0]]

\* The construction Account(initial_balance), as the first call recorded.
Created(initial_balance) == [op |-> "init", initial_balance |-> initial_balance]

Init ==
  /\ \E initial_balance \in InitialBalances :
       /\ account = NewAccount(initial_balance)
       /\ call = Created(initial_balance)
  /\ raised = NoError
  /\ before = account
  /\ handle = NoHandle
  /\ writes = 0
  /\ run = NotStarted

\* A caller invokes a method and the method runs to its return or its raise.
CanCall == Len(account.transactions) < MaxTx

Invoke(c, outcome) ==
  /\ before' = account
  /\ call' = c
  /\ account' = outcome.self
  /\ raised' = outcome.raised
  /\ UNCHANGED <<handle, writes, run>>

Deposit ==
  \E amount \in Amounts :
    /\ CanCall
    /\ Invoke([op |-> "deposit", amount |-> amount], deposit(account, amount))

Withdraw ==
  \E amount \in Amounts :
    /\ CanCall
    /\ Invoke([op |-> "withdraw", amount |-> amount], withdraw(account, amount))

BuyShares ==
  \E symbol \in Symbols, quantity \in Quantities :
    /\ CanCall
    /\ Invoke([op |-> "buy_shares", symbol |-> symbol, quantity |-> quantity],
              buy_shares(account, symbol, quantity))

SellShares ==
  \E symbol \in Symbols, quantity \in Quantities :
    /\ CanCall
    /\ Invoke([op |-> "sell_shares", symbol |-> symbol, quantity |-> quantity],
              sell_shares(account, symbol, quantity))

Next == Deposit \/ Withdraw \/ BuyShares \/ SellShares

Spec == Init /\ [][Next]_vars

\* The same account driven the way the form of app.py lets a user drive it:
\* a non-negative initial deposit (minimum=0), amounts of at least 0.01 and
\* quantities of at least 1.
ValidCall ==
  /\ call.op \in {"deposit", "withdraw"} => call.amount > 0
  /\ call.op \in {"buy_shares", "sell_shares"} => call.quantity > 0

InitValid == Init /\ account.initial_deposit >= 0

NextValid ==
  \/ Deposit /\ ValidCall'
  \/ Withdraw /\ ValidCall'
  \/ BuyShares /\ ValidCall'
  \/ SellShares /\ ValidCall'

SpecValid == InitValid /\ [][NextValid]_vars

\* ------------------------------------------------------------------ a run of the crew
\* The process that runs the crew holds no account.
InitCrew ==
  /\ run = NotStarted
  /\ account = None
  /\ call = [op |-> "kickoff"]
  /\ raised = NoError
  /\ before = None
  /\ handle = NoHandle
  /\ writes = 0

Idle == \A t \in TaskNames : run.status[t] \in {"pending", "done"}

\* The sequential process hands the tasks to their agents one at a time, in
\* the order of the task list: the next task is the first one not yet run.
StartTask ==
  /\ process = "sequential"
  /\ Idle
  /\ \E k \in 1..Len(tasks) :
       /\ run.status[tasks[k]] = "pending"
       /\ \A j \in 1..(k - 1) : run.status[tasks[j]] = "done"
       /\ run' = [run EXCEPT !.status[tasks[k]] = "running"]
  /\ UNCHANGED <<account, call, raised, before, handle, writes>>

\* The agent's attempt fails and the task is tried again.
RetryTask ==
  /\ \E t \in TaskNames :
       /\ run.status[t] = "running"
       /\ run.retries[t] < MaxRetries
       /\ run' = [run EXCEPT !.retries[t] = run.retries[t] + 1]
  /\ UNCHANGED <<account, call, raised, before, handle, writes>>

\* The agent's attempt fails with no retry left: the run ends.
FailTask ==
  /\ \E t \in TaskNames :
       /\ run.status[t] = "running"
       /\ run.retries[t] = MaxRetries
       /\ run' = [run EXCEPT !.status[t] = "failed"]
  /\ UNCHANGED <<account, call, raised, before, handle, writes>>

\* The task's output is produced.
FinishTask ==
  /\ \E t \in TaskNames :
       /\ run.status[t] = "running"
       /\ run' = [run EXCEPT !.status[t] = "done"]
  /\ UNCHANGED <<account, call, raised, before, handle, writes>>

NextCrew ==
  \/ StartTask
  \/ RetryTask
  \/ FailTask
  \/ FinishTask

SpecCrew == InitCrew /\ [][NextCrew]_vars

\* ------------------------------------------------------------------ callers of the getters
\* A caller asks for the holdings or for the transaction log and keeps what
\* it is given.
Query(c, returned) ==
  /\ handle' = returned
  /\ call' = c
  /\ before' = account
  /\ raised' = NoError
  /\ UNCHANGED <<account, writes, run>>

GetHoldings ==
  /\ handle # get_holdings(account)
  /\ Query([op |-> "get_holdings"], get_holdings(account))

GetTransactions ==
  /\ handle # get_transactions(account)
  /\ Query([op |-> "get_transactions"], get_transactions(account))

\* A number handed to the caller: nothing of the account can be reached
\* through it.
Value(v) == [kind |-> "value", value |-> v]

GetProfitLoss ==
  /\ handle # Value(get_profit_loss(account))
  /\ Query([op |-> "get_profit_loss"], Value(get_profit_loss(account)))

\* The four methods and the three queries, in any order.
NextQueries ==
  \/ NextValid
  \/ GetHoldings
  \/ GetTransactions
  \/ GetProfitLoss

SpecQueries == InitValid /\ [][NextQueries]_vars

\* The caller replaces the content of the container it holds.
CallerWrite(c, v) ==
  LET stored == Store(handle, account, v) IN
  /\ writes < MaxCallerWrites
  /\ account' = stored.self
  /\ handle' = stored.handle
  /\ writes' = writes + 1
  /\ UNCHANGED run
  /\ call' = c
  /\ before' = account
  /\ raised' = NoError

\* holdings_copy['AAPL'] = 100
CallerSetItem ==
  /\ handle.kind # "none" /\ handle.field = "holdings"
  /\ \E symbol \in {"AAPL", "TSLA"} :
       CallerWrite([op |-> "holdings_setitem", symbol |-> symbol],
                   DictSet(Deref(handle, account), symbol, 100))

\* del holdings_copy[symbol]
CallerDelItem ==
  /\ handle.kind # "none" /\ handle.field = "holdings"
  /\ \E symbol \in DOMAIN Deref(handle, account) :
       CallerWrite([op |-> "holdings_delitem", symbol |-> symbol],
                   DictDel(Deref(handle, account), symbol))

\* transactions_list.append({"dummy_tx": True})
CallerAppend ==
  /\ handle.kind # "none" /\ handle.field = "transactions"
  /\ CallerWrite([op |-> "transactions_append"],
                 Append(Deref(handle, account), [dummy_tx |-> TRUE]))

\* transactions_list.pop()
CallerPop ==
  /\ handle.kind # "none" /\ handle.field = "transactions"
  /\ Deref(handle, account) # <<>>
  /\ LET log == Deref(handle, account) IN
     CallerWrite([op |-> "transactions_pop"], SubSeq(log, 1, Len(log) - 1))

NextAliasing ==
  \/ NextValid
  \/ GetHoldings
  \/ GetTransactions
  \/ CallerSetItem
  \/ CallerDelItem
  \/ CallerAppend
  \/ CallerPop

SpecAliasing == InitValid /\ [][NextAliasing]_vars

\* ------------------------------------------------------------------ presentation layer (app.py)
\* The module-level user_account of app.py: None until an account is
\* created, then the one Account of the process. Under SpecApp the variable
\* account holds what user_account is bound to.
user_account == account

\* What the form sends: the account id box and the initial deposit box
\* (minimum=0); amounts and quantities are those ValidCall admits.
AccountIds == {"", "A1"}
InitialDeposits == {d \in InitialBalances : d >= 0}
FormAmounts == {a \in Amounts : a > 0}
FormQuantities == {q \in Quantities : q > 0}

NotInitialized == "Account not initialized. Please create an account first."

\* gr.Error(f"{prefix} failed: {e}") for the ValueErrors of Account
FailedMessage(prefix, e) ==
  CASE prefix = "Deposit" -> "Deposit failed"
    [] prefix = "Withdrawal" /\ e = "Insufficient funds" ->
         "Withdrawal failed: Insufficient funds"
    [] prefix = "Buy shares" /\ e = "Unknown share symbol" ->
         "Buy shares failed: Unknown share symbol"
    [] prefix = "Buy shares" /\ e = "Insufficient funds to buy shares" ->
         "Buy shares failed: Insufficient funds to buy shares"
    [] prefix = "Sell shares" /\ e = "You do not own any shares of this symbol" ->
         "Sell shares failed: You do not own any shares of this symbol"
    [] prefix = "Sell shares" /\ e = "You do not own enough shares to sell" ->
         "Sell shares failed: You do not own enough shares to sell"
    [] prefix = "Sell shares" /\ e = "Unknown share symbol" ->
         "Sell shares failed: Unknown share symbol"

\* Account(account_id, initial_deposit) as app.py calls it: the two-argument
\* constructor of the accounts module the form was written for, which
\* refuses an empty id and a negative deposit with a ValueError.
create(account_id, initial_deposit) ==
  IF account_id = "" \/ initial_deposit < 0
  THEN Raise(None, "InvalidArgument")
  ELSE Return([account_id |-> account_id] @@ NewAccount(initial_deposit))

\* initialize_account(account_id, initial_deposit): the ValueError is caught
\* and user_account keeps its binding.
initialize_account(ua, account_id, initial_deposit) ==
  LET made == create(account_id, initial_deposit) IN
  IF made.raised # NoError THEN Return(ua) ELSE Return(made.self)

\* Variant of get_account_instance: an account with no money is created
\* when none exists.
get_account_instance_autocreate(ua) ==
  IF ua = None THEN Return(NewAccount(0)) ELSE Return(ua)

\* get_account_instance()
get_account_instance(ua) ==
  IF ua = None THEN Raise(ua, NotInitialized) ELSE Return(ua)

\* except ValueError as e: raise gr.Error(f"{prefix} failed: {e}")
ExceptValueError(prefix, done) ==
  IF done.raised # NoError
  THEN Raise(done.self, FailedMessage(prefix, done.raised))
  ELSE done

\* Each handler: try: account = get_account_instance(); <method call>,
\* with the gr.Error of get_account_instance re-raised as it is
\* (except gr.Error as e: raise e).
handle_deposit(ua, amount) ==
  LET got == get_account_instance(ua) IN
  IF got.raised # NoError
  THEN Raise(ua, got.raised)
  ELSE ExceptValueError("Deposit", deposit(got.self, amount))

handle_withdraw(ua, amount) ==
  LET got == get_account_instance(ua) IN
  IF got.raised # NoError
  THEN Raise(ua, got.raised)
  ELSE ExceptValueError("Withdrawal", withdraw(got.self, amount))

handle_buy_shares(ua, symbol, quantity) ==
  LET got == get_account_instance(ua) IN
  IF got.raised # NoError
  THEN Raise(ua, got.raised)
  ELSE ExceptValueError("Buy shares", buy_shares(got.self, symbol, quantity))

handle_sell_shares(ua, symbol, quantity) ==
  LET got == get_account_instance(ua) IN
  IF got.raised # NoError
  THEN Raise(ua, got.raised)
  ELSE ExceptValueError("Sell shares", sell_shares(got.self, symbol, quantity))

\* The text a value is rendered as (str(...) and the f-strings of app.py),
\* kept as the value under a tag.
Rendered(v) == <<"str", v>>

DefaultDisplay ==
  <<"Account not initialized.", "{}", "No transactions yet.",
    "Total Profit/Loss: $0.00">>

\* update_account_display(): the gr.Error of get_account_instance is caught
\* and the default texts are returned.
update_account_display(ua) ==
  LET got == get_account_instance(ua) IN
  IF got.raised # NoError
  THEN DefaultDisplay
  ELSE LET acct == got.self IN
       <<Rendered([balance |-> acct.balance,
                   initial_deposit |-> acct.initial_deposit]),
         Rendered(Deref(get_holdings(acct), acct)),
         IF Deref(get_transactions(acct), acct) = <<>>
         THEN "No transactions yet."
         ELSE Rendered(Deref(get_transactions(acct), acct)),
         Rendered(get_profit_loss(acct))>>

\* The module is imported: user_account = None.
InitApp ==
  /\ account = None
  /\ call = [op |-> "import"]
  /\ raised = NoError
  /\ before = None
  /\ handle = NoHandle
  /\ writes = 0
  /\ run = NotStarted

AppCanCall == IF user_account = None THEN TRUE ELSE CanCall

\* button.click(handler, ...).then(update_account_display, ...): the handler
\* runs, and whether it returned or raised the display is refreshed.
Click(c, outcome) ==
  /\ before' = account
  /\ call' = c
  /\ account' = outcome.self
  /\ raised' = outcome.raised
  /\ handle' = Value(update_account_display(outcome.self))
  /\ UNCHANGED <<writes, run>>

HandleCreateAccount ==
  \E account_id \in AccountIds, initial_deposit \in InitialDeposits :
    /\ initial_deposit >= 0
    /\ Invoke([op |-> "handle_create_account", account_id |-> account_id,
               initial_deposit |-> initial_deposit],
              initialize_account(user_account, account_id, initial_deposit))

HandleDeposit ==
  \E amount \in FormAmounts :
    /\ AppCanCall
    /\ Click([op |-> "handle_deposit", amount |-> amount],
             handle_deposit(user_account, amount))

HandleWithdraw ==
  \E amount \in FormAmounts :
    /\ AppCanCall
    /\ Click([op |-> "handle_withdraw", amount |-> amount],
             handle_withdraw(user_account, amount))

HandleBuyShares ==
  \E symbol \in Symbols, quantity \in FormQuantities :
    /\ AppCanCall
    /\ Click([op |-> "handle_buy_shares", symbol |-> symbol,
              quantity |-> quantity],
             handle_buy_shares(user_account, symbol, quantity))

HandleSellShares ==
  \E symbol \in Symbols, quantity \in FormQuantities :
    /\ AppCanCall
    /\ Click([op |-> "handle_sell_shares", symbol |-> symbol,
              quantity |-> quantity],
             handle_sell_shares(user_account, symbol, quantity))

\* app.load(update_account_display, ...): the page is loaded.
UpdateAccountDisplay ==
  /\ call.op # "update_account_display"
  /\ Query([op |-> "update_account_display"],
           Value(update_account_display(user_account)))

NextApp ==
  \/ HandleCreateAccount
  \/ HandleDeposit
  \/ HandleWithdraw
  \/ HandleBuyShares
  \/ HandleSellShares
  \/ UpdateAccountDisplay

SpecApp == InitApp /\ [][NextApp]_vars

\* ------------------------------------------------------------------ round trips
\* deposit(amount) immediately followed by withdraw(amount).  `first_ok`
\* tells whether the first call returned normally; the second is made only
\* then, and `raised` is what the pair raised.
Then(first, second) == IF first.raised = NoError THEN second ELSE first

DepositThenWithdraw ==
  \E amount \in Amounts :
    LET first == deposit(account, amount)
        second == withdraw(first.self, amount)
    IN /\ Len(account.transactions) + 2 <= MaxTx
       /\ Invoke([op |-> "deposit_withdraw", amount |-> amount,
                  first_ok |-> first.raised = NoError],
                 Then(first, second))

\* buy_shares(symbol, quantity) immediately followed by
\* sell_shares(symbol, quantity).
BuyThenSell ==
  \E symbol \in Symbols, quantity \in Quantities :
    LET first == buy_shares(account, symbol, quantity)
        second == sell_shares(first.self, symbol, quantity)
    IN /\ Len(account.transactions) + 2 <= MaxTx
       /\ Invoke([op |-> "buy_sell", symbol |-> symbol, quantity |-> quantity,
                  first_ok |-> first.raised = NoError],
                 Then(first, second))

NextRoundTrip == Next \/ DepositThenWithdraw \/ BuyThenSell

SpecRoundTrip == Init /\ [][NextRoundTrip]_vars

\* ------------------------------------------------------------------ properties
\* The last call was `op` and returned normally / raised.
Succeeded(op) == call.op = op /\ raised = NoError
Failed == call.op # "init" /\ raised # NoError
SameLedger ==
  /\ account.balance = before.balance
  /\ account.holdings = before.holdings
  /\ account.transactions = before.transactions

\* The effect of one logged transaction on a running balance.
ReplayStep(acc, tx) ==
  CASE tx.type = "deposit" -> acc + tx.amount
    [] tx.type = "withdrawal" -> acc - tx.amount
    [] tx.type = "buy" -> acc - tx.price * tx.quantity
    [] tx.type = "sell" -> acc + tx.price * tx.quantity

RECURSIVE Replay(_, _)
Replay(acc, log) ==
  IF log = <<>> THEN acc ELSE Replay(ReplayStep(acc, Head(log)), Tail(log))

TypesLogged == {account.transactions[i].type : i \in DOMAIN account.transactions}

\* C1: replaying the transaction log in order from initial_deposit (+amount
\* for a deposit, -amount for a withdrawal, -price*quantity for a buy,
\* +price*quantity for a sell) yields exactly the live balance.
C1_ReplayReproducesBalance ==
  Replay(account.initial_deposit, account.transactions) = account.balance

\* A log holding a deposit, a buy and a sell, after which the balance differs
\* from the initial deposit.
C1_Witness ==
  /\ TypesLogged = {"deposit", "buy", "sell"}
  /\ account.balance # account.initial_deposit

\* C2: whenever deposit, withdraw, buy_shares or sell_shares raises, balance,
\* holdings and the transaction log are what they were before the call.
C2_FailureMutatesNothing == Failed => SameLedger

\* A sale of more shares than are held, refused on an account that has cash,
\* a holding and a log.
C2_Witness ==
  /\ Failed
  /\ call.op = "sell_shares"
  /\ raised = "You do not own enough shares to sell"
  /\ before.holdings # EmptyDict
  /\ before.transactions # <<>>

\* C3: every key present in holdings maps to a quantity strictly greater
\* than 0, in every state reached by buy_shares and sell_shares calls with
\* integer quantities.
C3_HoldingsStrictlyPositive ==
  \A s \in DOMAIN account.holdings : account.holdings[s] > 0

\* C4: withdraw(amount) with amount greater than the current balance fails
\* with the insufficient-funds error, leaves the balance unchanged and
\* appends no transaction.
C4_OverdrawRefused ==
  (call.op = "withdraw" /\ call.amount > before.balance) =>
    /\ raised = "Insufficient funds"
    /\ account.balance = before.balance
    /\ account.transactions = before.transactions

\* withdraw(20000) on a balance of 10000.
C4_Witness ==
  /\ call.op = "withdraw"
  /\ call.amount = 20000
  /\ before.balance = 10000
  /\ raised = "Insufficient funds"
  /\ account.balance = 10000

\* C5: deposit(amount) with amount <= 0 fails with an error; the balance and
\* the transaction log are unchanged.
C5_NonPositiveDepositRefused ==
  (call.op = "deposit" /\ call.amount <= 0) =>
    /\ raised # NoError
    /\ account.balance = before.balance
    /\ account.transactions = before.transactions

\* C6: withdraw(amount) with amount <= 0 fails with an error; the balance and
\* the transaction log are unchanged.
C6_NonPositiveWithdrawRefused ==
  (call.op = "withdraw" /\ call.amount <= 0) =>
    /\ raised # NoError
    /\ account.balance = before.balance
    /\ account.transactions = before.transactions

\* C7: a successful buy_shares(s, q) decreases the balance by exactly
\* price(s)*q and increases holdings[s] by exactly q, creating the entry at q
\* if s was absent; repeated buys of the same symbol accumulate.
C7_BuyEffect ==
  Succeeded("buy_shares") =>
    /\ account.balance = before.balance - prices[call.symbol] * call.quantity
    /\ call.symbol \in DOMAIN account.holdings
    /\ account.holdings[call.symbol] =
         DictGet(before.holdings, call.symbol, 0) + call.quantity

\* A second buy of 10 AAPL on top of a holding of 10 AAPL.
C7_Witness ==
  /\ Succeeded("buy_shares")
  /\ call.symbol = "AAPL" /\ call.quantity = 10
  /\ before.holdings = [s \in {"AAPL"} |-> 10]
  /\ account.holdings = [s \in {"AAPL"} |-> 20]
  /\ account.balance = before.balance - 1500

\* C8: a successful sell_shares(s, q) increases the balance by exactly
\* price(s)*q and decreases holdings[s] by exactly q; when the remaining
\* quantity is 0 the key s is removed from holdings, otherwise it stays with
\* the reduced quantity.
C8_SellEffect ==
  Succeeded("sell_shares") =>
    LET left == before.holdings[call.symbol] - call.quantity IN
    /\ account.balance = before.balance + prices[call.symbol] * call.quantity
    /\ IF left = 0
       THEN call.symbol \notin DOMAIN account.holdings
       ELSE /\ call.symbol \in DOMAIN account.holdings
            /\ account.holdings[call.symbol] = left

\* The whole holding of 10 TSLA is sold and the key TSLA is gone.
C8_Witness ==
  /\ Succeeded("sell_shares")
  /\ call.symbol = "TSLA" /\ call.quantity = 10
  /\ before.holdings = [s \in {"TSLA"} |-> 10]
  /\ account.holdings = EmptyDict
  /\ account.balance = before.balance + 2000

\* C9: buy_shares(s, q) for a symbol s the price oracle cannot price fails
\* with the unknown-symbol error; the balance is unchanged, s is not added to
\* holdings and no transaction is appended.
C9_UnknownSymbolRefused ==
  (call.op = "buy_shares" /\ call.symbol \notin DOMAIN prices) =>
    /\ raised = "Unknown share symbol"
    /\ account.balance = before.balance
    /\ call.symbol \notin DOMAIN account.holdings
    /\ account.holdings = before.holdings
    /\ account.transactions = before.transactions

\* buy_shares("ZZZZ", 1) on an account that could pay for priced shares.
C9_Witness ==
  /\ call.op = "buy_shares"
  /\ call.symbol = "ZZZZ" /\ call.quantity = 1
  /\ before.balance = 10000
  /\ raised = "Unknown share symbol"

\* C10: buy_shares(s, q) whose cost price(s)*q exceeds the current balance
\* fails with the insufficient-funds error, the balance is unchanged and s is
\* neither added to nor increased in holdings; a buy whose cost equals the
\* balance exactly succeeds.
C10_BuyFundsCheck ==
  (call.op = "buy_shares" /\ call.symbol \in DOMAIN prices) =>
    LET cost == prices[call.symbol] * call.quantity IN
    /\ cost > before.balance =>
         /\ raised = "Insufficient funds to buy shares"
         /\ account.balance = before.balance
         /\ account.holdings = before.holdings
    /\ cost = before.balance => raised = NoError

\* A deposit of 150 is spent whole on 1 AAPL (cost = balance), and the next
\* buy of 1 AAPL, on the balance of 0 that is left, is refused.
C10_Witness ==
  /\ call.op = "buy_shares"
  /\ call.symbol = "AAPL" /\ call.quantity = 1
  /\ raised = "Insufficient funds to buy shares"
  /\ before.initial_deposit = 0
  /\ before.balance = 0
  /\ before.transactions =
       << [type |-> "deposit", amount |-> 150],
          [type |-> "buy", symbol |-> "AAPL", quantity |-> 1, price |-> 150] >>

\* C11: buy_shares(s, q) with q <= 0 fails with an error for every symbol s
\* and leaves balance, holdings and the transaction log unchanged.
C11_NonPositiveBuyRefused ==
  (call.op = "buy_shares" /\ call.quantity <= 0) =>
    /\ raised # NoError
    /\ SameLedger

\* C12: sell_shares(s, q) fails with an insufficient-holdings error when s is
\* not in holdings or when q exceeds holdings[s]; balance and holdings are
\* unchanged and no transaction is appended.
C12_InsufficientHoldingsRefused ==
  call.op = "sell_shares" =>
    /\ call.symbol \notin DOMAIN before.holdings =>
         /\ raised = "You do not own any shares of this symbol"
         /\ SameLedger
    /\ (/\ call.symbol \in DOMAIN before.holdings
        /\ call.quantity > before.holdings[call.symbol]) =>
         /\ raised = "You do not own enough shares to sell"
         /\ SameLedger

\* 10 AAPL are offered for sale out of a holding of 1 AAPL.
C12_Witness ==
  /\ call.op = "sell_shares"
  /\ call.symbol = "AAPL" /\ call.quantity = 10
  /\ before.holdings = [s \in {"AAPL"} |-> 1]
  /\ raised = "You do not own enough shares to sell"
  /\ account = before

\* C13: sell_shares(s, q) with q <= 0 on a held symbol s fails with an error,
\* and holdings[s] and the balance are unchanged.
C13_NonPositiveSellRefused ==
  (/\ call.op = "sell_shares"
   /\ call.symbol \in DOMAIN before.holdings
   /\ call.quantity <= 0) =>
    /\ raised # NoError
    /\ account.holdings = before.holdings
    /\ account.balance = before.balance

\* The value of a holdings mapping at the prices of the table.
RECURSIVE ValueOfSymbols(_, _)
ValueOfSymbols(h, S) ==
  IF S = {} THEN 0
  ELSE LET s == CHOOSE x \in S : TRUE
       IN h[s] * prices[s] + ValueOfSymbols(h, S \ {s})

PortfolioValue(h) == ValueOfSymbols(h, DOMAIN h)

\* C16: in every reachable state get_profit_loss() equals balance + sum over
\* held symbols s of holdings[s]*price(s) - initial_deposit; it is 0 right
\* after creation and remains 0 after buying shares at an unchanged price.
C16_ProfitLossIsTotalValueMinusDeposit ==
  get_profit_loss(account) =
    account.balance + PortfolioValue(account.holdings) - account.initial_deposit

\* C19: every logged transaction records an amount and a balance_after equal
\* to the account balance right after its operation, so the last
\* transaction's balance_after equals the live balance.
C19_BalanceAfterRecorded ==
  /\ \A i \in DOMAIN account.transactions :
       {"amount", "balance_after"} \subseteq DOMAIN account.transactions[i]
  /\ account.transactions # <<>> =>
       account.transactions[Len(account.transactions)].balance_after = account.balance

\* The type logged by each method.
TypeLoggedBy(op) ==
  CASE op = "deposit" -> "deposit"
    [] op = "withdraw" -> "withdrawal"
    [] op = "buy_shares" -> "buy"
    [] op = "sell_shares" -> "sell"

\* C20: the transaction log is append-only and ordered: each successful
\* deposit, withdraw, buy_shares or sell_shares appends exactly one record of
\* the matching type at the end, the previous log is a prefix of the new log,
\* and no call removes or reorders records.
C20_LogAppendOnly ==
  call.op \in {"deposit", "withdraw", "buy_shares", "sell_shares"} =>
    IF raised = NoError
    THEN /\ Len(account.transactions) = Len(before.transactions) + 1
         /\ SubSeq(account.transactions, 1, Len(before.transactions)) = before.transactions
         /\ account.transactions[Len(account.transactions)].type = TypeLoggedBy(call.op)
    ELSE account.transactions = before.transactions

\* A withdrawal is logged third, after two earlier records that are kept.
C20_Witness ==
  /\ Succeeded("withdraw")
  /\ Len(before.transactions) = 2
  /\ before.transactions[1] = [type |-> "deposit", amount |-> 150]
  /\ before.transactions[2] =
       [type |-> "buy", symbol |-> "AAPL", quantity |-> 1, price |-> 150]
  /\ call.amount = 150
  /\ account.transactions = Append(before.transactions,
                                   [type |-> "withdrawal", amount |-> call.amount])

\* C14: get_holdings() returns an independent copy: modifying, adding or
\* removing an entry in the returned mapping never changes the account's
\* holdings.
C14_ReturnedHoldingsIndependent ==
  call.op \in {"holdings_setitem", "holdings_delitem"} =>
    account.holdings = before.holdings

\* C15: get_transactions() returns an independent copy: appending to or
\* removing from the returned sequence never changes the length or content
\* of the account's transaction log.
C15_ReturnedTransactionsIndependent ==
  call.op \in {"transactions_append", "transactions_pop"} =>
    account.transactions = before.transactions

\* C17: deposit(a) immediately followed by withdraw(a) with the same a > 0
\* restores the balance to its value before the deposit, leaves holdings
\* unchanged and appends exactly two transactions, a deposit then a
\* withdrawal.
C17_DepositWithdrawRoundTrip ==
  (call.op = "deposit_withdraw" /\ call.amount > 0) =>
    /\ raised = NoError
    /\ account.balance = before.balance
    /\ account.holdings = before.holdings
    /\ account.transactions =
         before.transactions \o << [type |-> "deposit", amount |-> call.amount],
                                   [type |-> "withdrawal", amount |-> call.amount] >>

\* C18: a successful buy_shares(s, q) immediately followed by
\* sell_shares(s, q) at the same price restores the balance, the holdings and
\* get_profit_loss() to their values before the buy.
C18_BuySellRoundTrip ==
  (call.op = "buy_sell" /\ call.first_ok) =>
    /\ raised = NoError
    /\ account.balance = before.balance
    /\ account.holdings = before.holdings
    /\ get_profit_loss(account) = get_profit_loss(before)

\* C21: a newly created Account has balance equal to the given initial
\* deposit, initial_deposit equal to the same value, empty holdings and an
\* empty transaction log.
C21_NewAccountState ==
  call.op = "init" =>
    /\ account.balance = call.initial_balance
    /\ account.initial_deposit = call.initial_balance
    /\ account.holdings = EmptyDict
    /\ account.transactions = <<>>

\* Account(10000), before any call.
C21_Witness ==
  /\ call = Created(10000)
  /\ account.balance = 10000
  /\ account.initial_deposit = 10000

\* C22: creating an Account with a negative initial deposit fails with an
\* error, so no Account with a negative starting balance ever exists.
C22_NegativeInitialDepositRefused ==
  /\ (call.op = "init" /\ call.initial_balance < 0) => raised # NoError
  /\ account.initial_deposit >= 0

\* C23: selling a symbol that is both not held and unknown to the price
\* oracle fails with the insufficient-holdings error, never with the
\* unknown-symbol error: the holdings check precedes the price lookup.
C23_HoldingsCheckedBeforePrice ==
  (/\ call.op = "sell_shares"
   /\ call.symbol \notin DOMAIN before.holdings
   /\ call.symbol \notin DOMAIN prices) =>
    raised = "You do not own any shares of this symbol"

\* sell_shares("ZZZZ", 1) on an account that holds AAPL only.
C23_Witness ==
  /\ call.op = "sell_shares"
  /\ call.symbol = "ZZZZ" /\ call.quantity = 1
  /\ DOMAIN before.holdings = {"AAPL"}
  /\ raised = "You do not own any shares of this symbol"

\* C25: for an account created with a non-negative initial deposit and
\* driven only by calls with strictly positive amounts and quantities, the
\* balance is >= 0 in every reachable state.
C25_BalanceNeverNegative == account.balance >= 0

\* The whole balance of 150 is spent on 1 AAPL, or withdrawn.
C25_Witness ==
  /\ call.op \in {"withdraw", "buy_shares"}
  /\ raised = NoError
  /\ before.balance = 150
  /\ account.balance = 0

\* The quantity of symbol s bought minus the quantity sold, by the log.
RECURSIVE NetBought(_, _)
NetBought(log, s) ==
  IF log = <<>> THEN 0
  ELSE LET tx == Head(log)
           q == IF tx.type \in {"buy", "sell"} /\ tx.symbol = s
                THEN (IF tx.type = "buy" THEN tx.quantity ELSE 0 - tx.quantity)
                ELSE 0
       IN q + NetBought(Tail(log), s)

\* C26: for every symbol s the quantity held (holdings[s], or 0 when s is
\* absent) equals the sum of the quantities of the logged buys of s minus the
\* sum of the quantities of the logged sells of s.
C26_HoldingsMatchLog ==
  \A s \in Symbols \cup DOMAIN account.holdings :
    DictGet(account.holdings, s, 0) = NetBought(account.transactions, s)

\* 10 AAPL bought twice and 1 AAPL sold: 19 held.
C26_Witness ==
  /\ Len(account.transactions) = 3
  /\ Succeeded("sell_shares")
  /\ account.holdings = [s \in {"AAPL"} |-> 19]

\* balance + sum over s of holdings[s] * price(s)
TotalValue(self) == self.balance + PortfolioValue(self.holdings)

\* C27: with the price table unchanged a successful buy_shares or
\* sell_shares leaves the total account value unchanged; only deposit and
\* withdraw change it, by exactly +amount and -amount.
C27_TotalValueConserved ==
  /\ call.op \in {"buy_shares", "sell_shares"} =>
       TotalValue(account) = TotalValue(before)
  /\ Succeeded("deposit") => TotalValue(account) = TotalValue(before) + call.amount
  /\ Succeeded("withdraw") => TotalValue(account) = TotalValue(before) - call.amount
  /\ Failed => TotalValue(account) = TotalValue(before)

\* 10 AAPL are bought for 1500 out of 10000 while TSLA is held.
C27_Witness ==
  /\ Succeeded("buy_shares")
  /\ call.symbol = "AAPL" /\ call.quantity = 10
  /\ "TSLA" \in DOMAIN before.holdings
  /\ account.balance = before.balance - 1500
  /\ TotalValue(account) = 10000

\* C28: deposit and withdraw leave holdings unchanged, and buy_shares(s, q)
\* and sell_shares(s, q) leave holdings[t] unchanged for every symbol t
\* different from s.
C28_OtherHoldingsUntouched ==
  /\ call.op \in {"deposit", "withdraw"} => account.holdings = before.holdings
  /\ call.op \in {"buy_shares", "sell_shares"} =>
       \A t \in (DOMAIN before.holdings \cup DOMAIN account.holdings) \ {call.symbol} :
         /\ t \in DOMAIN before.holdings
         /\ t \in DOMAIN account.holdings
         /\ account.holdings[t] = before.holdings[t]

\* The last AAPL share is sold while 10 TSLA are held: TSLA stays at 10.
C28_Witness ==
  /\ Succeeded("sell_shares")
  /\ call.symbol = "AAPL"
  /\ before.holdings = [s \in {"AAPL", "TSLA"} |-> IF s = "AAPL" THEN 1 ELSE 10]
  /\ account.holdings = [s \in {"TSLA"} |-> 10]

\* C24: initial_deposit is fixed at creation: no deposit, withdraw,
\* buy_shares, sell_shares or query, successful or failing, changes it.
C24_InitialDepositNeverChanges ==
  [][account'.initial_deposit = account.initial_deposit]_vars

\* After a purchase of 10 AAPL the profit/loss is asked for: it is -1500
\* against the initial deposit of 10000.
C24_Witness ==
  /\ call.op = "get_profit_loss"
  /\ handle = Value(-1500)
  /\ Len(account.transactions) = 1
  /\ account.balance = 8500
  /\ account.initial_deposit = 10000

AppHandlers ==
  {"handle_deposit", "handle_withdraw", "handle_buy_shares", "handle_sell_shares"}

Workflow ==
  <<"requirements_analysis_task", "design_task", "code_task", "frontend_task",
    "code_review_task", "test_task", "documentation_task">>

====
